---- MODULE Spec2Model ----
(***************************************************************************)
(* Model of lib/llm/src/protocols/openai.rs: the range validator, the      *)
(* range scaler and the two option extractors of the OpenAI protocol       *)
(* layer.                                                                  *)
(*                                                                         *)
(* Scalars.  The extractors work on f32 and the two utilities are generic  *)
(* over PartialOrd types (f32, f64 and, for validate_range, integers).     *)
(* A scalar is modelled as an exact rational n/d in lowest terms, or NaN,  *)
(* the one f32 value that is unordered with every value.  Comparisons      *)
(* follow PartialOrd: every comparison with NaN is false.  Arithmetic is   *)
(* exact: f32 rounding and the infinities are outside the model.           *)
(*                                                                         *)
(* Option<T> is a sequence of length at most one, Result<T> a record with  *)
(* the field ok.                                                           *)
(***************************************************************************)
EXTENDS Integers, Sequences, FiniteSets, TLC

VARIABLES
    op,     \* the function this run calls
    args,   \* its arguments (for the extractors: what the accessors return)
    pc,     \* "call" before the call, "returned" after it, "reextracted"
            \* after the result was fed back through the same extractor
    ret     \* the Result the last call returned

vars == <<op, args, pc, ret>>

---------------------------------------------------------------------------
(* Bounds of the model *)

\* range bounds and scaled values are the integers -MaxAbs .. MaxAbs
MaxAbs == 2

\* stop vectors have at most MaxStopLen strings
MaxStopLen == 5

\* token counts are 0 .. MaxTokens
MaxTokens == 2

---------------------------------------------------------------------------
(* Option and Result *)

None == <<>>

Some(v) == <<v>>

is_none(o) == Len(o) = 0

unwrap(o) == o[1]

unwrap_or(o, default) == IF Len(o) = 0 THEN default ELSE o[1]

Ok(v) == [ok |-> TRUE, val |-> v]

Err(e) == [ok |-> FALSE, err |-> e]

\* Result::map_err(|e| anyhow!("<context>: {}", e))
map_err(r, context) == IF r.ok THEN r ELSE Err([msg |-> context, cause |-> r.err])

---------------------------------------------------------------------------
(* Scalars *)

Abs(i) == IF i < 0 THEN -i ELSE i

RECURSIVE GCD(_, _)
GCD(a, b) == IF b = 0 THEN a ELSE GCD(b, a % b)

\* the number n/d (d # 0), in lowest terms with a positive denominator
Num(n, d) ==
    LET g == GCD(Abs(n), Abs(d))
        s == IF d < 0 THEN -1 ELSE 1
    IN  [nan |-> FALSE, n |-> (s * n) \div g, d |-> (s * d) \div g]

NaN == [nan |-> TRUE, n |-> 0, d |-> 1]

\* PartialOrd::lt, gt and PartialEq::eq on floats
Lt(a, b) == ~a.nan /\ ~b.nan /\ a.n * b.d < b.n * a.d

Gt(a, b) == Lt(b, a)

Eq(a, b) == ~a.nan /\ ~b.nan /\ a.n * b.d = b.n * a.d

\* Add, Sub, Mul, Div; a NaN operand gives NaN, and so does x / 0
Add(a, b) == IF a.nan \/ b.nan THEN NaN ELSE Num(a.n * b.d + b.n * a.d, a.d * b.d)

Sub(a, b) == IF a.nan \/ b.nan THEN NaN ELSE Num(a.n * b.d - b.n * a.d, a.d * b.d)

Mul(a, b) == IF a.nan \/ b.nan THEN NaN ELSE Num(a.n * b.n, a.d * b.d)

Div(a, b) == IF a.nan \/ b.nan \/ b.n = 0 THEN NaN ELSE Num(a.n * b.d, a.d * b.n)

---------------------------------------------------------------------------
(* The ranges of the sampling options *)

MIN_TEMPERATURE == Num(0, 1)

MAX_TEMPERATURE == Num(2, 1)

TEMPERATURE_RANGE == <<MIN_TEMPERATURE, MAX_TEMPERATURE>>

MIN_TOP_P == Num(0, 1)

MAX_TOP_P == Num(1, 1)

TOP_P_RANGE == <<MIN_TOP_P, MAX_TOP_P>>

MIN_FREQUENCY_PENALTY == Num(-2, 1)

MAX_FREQUENCY_PENALTY == Num(2, 1)

FREQUENCY_PENALTY_RANGE == <<MIN_FREQUENCY_PENALTY, MAX_FREQUENCY_PENALTY>>

MIN_PRESENCE_PENALTY == Num(-2, 1)

MAX_PRESENCE_PENALTY == Num(2, 1)

PRESENCE_PENALTY_RANGE == <<MIN_PRESENCE_PENALTY, MAX_PRESENCE_PENALTY>>

\* the most stop strings a request may carry
MAX_STOP == 4

---------------------------------------------------------------------------
(* validate_range *)

validate_range(value, range) ==
    IF is_none(value) THEN Ok(None)
    ELSE LET v == unwrap(value)
         IN  IF Lt(v, range[1]) \/ Gt(v, range[2])
             THEN Err([msg |-> "Value is out of range", value |-> v,
                       lo |-> range[1], hi |-> range[2]])
             ELSE Ok(Some(v))

---------------------------------------------------------------------------
(* scale_value *)

\* scale_value without its check of the destination range
scale_value_no_dst_check(value, src, dst) ==
    LET dst_range == Sub(dst[2], dst[1])
        src_range == Sub(src[2], src[1])
    IN  IF Eq(src_range, Num(0, 1)) THEN Err([msg |-> "src range is 0"])
        ELSE LET value_scaled == Div(Sub(value, src[1]), src_range)
             IN  Ok(Add(dst[1], Mul(value_scaled, dst_range)))

\* scale_value clamping the scaled value into [0, 1]
scale_value_clamped(value, src, dst) ==
    LET dst_range == Sub(dst[2], dst[1])
        src_range == Sub(src[2], src[1])
    IN  IF Eq(dst_range, Num(0, 1)) THEN Err([msg |-> "dst range is 0"])
        ELSE IF Eq(src_range, Num(0, 1)) THEN Err([msg |-> "src range is 0"])
        ELSE LET t == Div(Sub(value, src[1]), src_range)
                 value_scaled == IF Lt(t, Num(0, 1)) THEN Num(0, 1)
                                 ELSE IF Gt(t, Num(1, 1)) THEN Num(1, 1)
                                 ELSE t
             IN  Ok(Add(dst[1], Mul(value_scaled, dst_range)))

scale_value(value, src, dst) ==
    LET dst_range == Sub(dst[2], dst[1])
        src_range == Sub(src[2], src[1])
    IN  IF Eq(dst_range, Num(0, 1)) THEN Err([msg |-> "dst range is 0"])
        ELSE IF Eq(src_range, Num(0, 1)) THEN Err([msg |-> "src range is 0"])
        ELSE LET value_scaled == Div(Sub(value, src[1]), src_range)
             IN  Ok(Add(dst[1], Mul(value_scaled, dst_range)))

---------------------------------------------------------------------------
(* extract_sampling_options *)

\* the greedy flag never read
greedy_ignored(nvext) == FALSE

\* lines 133-139: the vendor extension's greedy flag clears both options
greedy(nvext) == ~is_none(nvext) /\ unwrap_or(unwrap(nvext).greed_sampling, FALSE)

\* the struct built with temperature and top_p in each other's place
SamplingOptions_swapped(temperature, top_p, frequency_penalty, presence_penalty) ==
    [n |-> None, best_of |-> None,
     frequency_penalty |-> frequency_penalty,
     presence_penalty |-> presence_penalty,
     repetition_penalty |-> None,
     temperature |-> top_p,
     top_p |-> temperature,
     top_k |-> None, min_p |-> None, seed |-> None,
     use_beam_search |-> None, length_penalty |-> None]

SamplingOptions(temperature, top_p, frequency_penalty, presence_penalty) ==
    [n |-> None, best_of |-> None,
     frequency_penalty |-> frequency_penalty,
     presence_penalty |-> presence_penalty,
     repetition_penalty |-> None,
     temperature |-> temperature,
     top_p |-> top_p,
     top_k |-> None, min_p |-> None, seed |-> None,
     use_beam_search |-> None, length_penalty |-> None]

extract_sampling_options(self) ==
    LET temperature == map_err(validate_range(self.temperature, TEMPERATURE_RANGE),
                               "Error validating temperature")
        top_p == map_err(validate_range(self.top_p, TOP_P_RANGE),
                         "Error validating top_p")
        frequency_penalty ==
            map_err(validate_range(self.frequency_penalty, FREQUENCY_PENALTY_RANGE),
                    "Error validating frequency_penalty")
        presence_penalty ==
            map_err(validate_range(self.presence_penalty, PRESENCE_PENALTY_RANGE),
                    "Error validating presence_penalty")
    IN  IF ~temperature.ok THEN temperature
        ELSE IF ~top_p.ok THEN top_p
        ELSE IF ~frequency_penalty.ok THEN frequency_penalty
        ELSE IF ~presence_penalty.ok THEN presence_penalty
        ELSE Ok(SamplingOptions(
                    IF greedy(self.nvext) THEN None ELSE temperature.val,
                    IF greedy(self.nvext) THEN None ELSE top_p.val,
                    frequency_penalty.val,
                    presence_penalty.val))

---------------------------------------------------------------------------
(* extract_stop_conditions *)

\* ignore_eos left at its initial None
ignore_eos_dropped(nvext) == None

\* lines 170-174
ignore_eos_of(nvext) == IF is_none(nvext) THEN None ELSE unwrap(nvext).ignore_eos

\* the limit as the error message words it: "less than 4"
too_many_stop_at_limit(stop) == ~is_none(stop) /\ Len(unwrap(stop)) >= MAX_STOP

\* lines 164-168
too_many_stop(stop) == ~is_none(stop) /\ Len(unwrap(stop)) > MAX_STOP

extract_stop_conditions(self) ==
    LET max_tokens == self.max_tokens
        min_tokens == self.min_tokens
        stop == self.stop
    IN  IF too_many_stop(stop)
        THEN Err([msg |-> "stop conditions must be less than 4"])
        ELSE Ok([max_tokens |-> max_tokens,
                 min_tokens |-> min_tokens,
                 stop |-> stop,
                 stop_token_ids_hidden |-> None,
                 ignore_eos |-> ignore_eos_of(self.nvext)])

---------------------------------------------------------------------------
(* Inputs *)

\* the integers -MaxAbs .. MaxAbs as scalars
Grid == {Num(k, 1) : k \in -MaxAbs .. MaxAbs}

\* the halves from -MaxAbs - 1/2 to MaxAbs + 1/2, and NaN
Scalars == {Num(k, 2) : k \in -(2 * MaxAbs + 1) .. 2 * MaxAbs + 1} \cup {NaN}

Option(S) == {None} \cup {Some(x) : x \in S}

\* inclusive ranges (lo, hi) with lo <= hi
Ranges == {r \in Grid \X Grid : ~Gt(r[1], r[2])}

TemperatureInputs ==
    Option({NaN, Num(-1, 10), Num(0, 1), Num(7, 10), Num(2, 1), Num(21, 10)})

TopPInputs ==
    Option({NaN, Num(-1, 10), Num(0, 1), Num(9, 10), Num(1, 1), Num(11, 10)})

PenaltyInputs ==
    Option({NaN, Num(-21, 10), Num(-2, 1), Num(1, 2), Num(2, 1), Num(21, 10)})

\* nvext::NvExt, as far as this file reads it
NvExt == [greed_sampling : Option(BOOLEAN), ignore_eos : Option(BOOLEAN)]

SamplingRequests ==
    [temperature : TemperatureInputs, top_p : TopPInputs,
     frequency_penalty : PenaltyInputs, presence_penalty : PenaltyInputs,
     nvext : Option(NvExt)]

StopStrings == {"a", "b"}

StopVectors == UNION {[1 .. n -> StopStrings] : n \in 0 .. MaxStopLen}

StopRequests ==
    [max_tokens : Option(0 .. MaxTokens), min_tokens : Option(0 .. MaxTokens),
     stop : Option(StopVectors), nvext : Option(NvExt)]

---------------------------------------------------------------------------
(* The calls *)

Pending == [ok |-> FALSE, err |-> [msg |-> "pending"]]

Init ==
    /\ pc = "call"
    /\ ret = Pending
    /\ \/ /\ op = "validate_range"
          /\ args \in [value : Option(Scalars), range : Ranges]
       \/ /\ op = "scale_value"
          /\ args \in [value : Grid \cup {NaN}, src : Grid \X Grid, dst : Grid \X Grid]
       \/ /\ op = "extract_sampling_options"
          /\ args \in SamplingRequests
       \/ /\ op = "extract_stop_conditions"
          /\ args \in StopRequests

ValidateRange ==
    /\ op = "validate_range" /\ pc = "call"
    /\ ret' = validate_range(args.value, args.range)
    /\ pc' = "returned"
    /\ UNCHANGED <<op, args>>

ScaleValue ==
    /\ op = "scale_value" /\ pc = "call"
    /\ ret' = scale_value(args.value, args.src, args.dst)
    /\ pc' = "returned"
    /\ UNCHANGED <<op, args>>

ExtractSamplingOptions ==
    /\ op = "extract_sampling_options" /\ pc = "call"
    /\ ret' = extract_sampling_options(args)
    /\ pc' = "returned"
    /\ UNCHANGED <<op, args>>

ExtractStopConditions ==
    /\ op = "extract_stop_conditions" /\ pc = "call"
    /\ ret' = extract_stop_conditions(args)
    /\ pc' = "returned"
    /\ UNCHANGED <<op, args>>

\* a request that carries the extracted options, extracted again
ReExtractSamplingOptions ==
    /\ op = "extract_sampling_options" /\ pc = "returned" /\ ret.ok
    /\ args' = [args EXCEPT !.temperature = ret.val.temperature,
                            !.top_p = ret.val.top_p,
                            !.frequency_penalty = ret.val.frequency_penalty,
                            !.presence_penalty = ret.val.presence_penalty]
    /\ ret' = extract_sampling_options(args')
    /\ pc' = "reextracted"
    /\ UNCHANGED op

ReExtractStopConditions ==
    /\ op = "extract_stop_conditions" /\ pc = "returned" /\ ret.ok
    /\ args' = [args EXCEPT !.max_tokens = ret.val.max_tokens,
                            !.min_tokens = ret.val.min_tokens,
                            !.stop = ret.val.stop]
    /\ ret' = extract_stop_conditions(args')
    /\ pc' = "reextracted"
    /\ UNCHANGED op

Next ==
    \/ ValidateRange
    \/ ScaleValue
    \/ ExtractSamplingOptions
    \/ ExtractStopConditions
    \/ ReExtractSamplingOptions
    \/ ReExtractStopConditions

Spec == Init /\ [][Next]_vars

---------------------------------------------------------------------------
(* Vocabulary of the properties *)

\* a <= b on scalars: false when either is NaN
Le(a, b) == Lt(a, b) \/ Eq(a, b)

\* lo <= v <= hi
InRange(v, range) == Le(range[1], v) /\ Le(v, range[2])

\* a present option whose value does not lie in the range
OutOfRange(o, range) == o # None /\ ~InRange(o[1], range)

\* the ranges as the interface states them
TemperatureBounds == <<Num(0, 1), Num(2, 1)>>

TopPBounds == <<Num(0, 1), Num(1, 1)>>

PenaltyBounds == <<Num(-2, 1), Num(2, 1)>>

\* the call of f has returned (the first time or on the fed-back request)
Returned(f) == op = f /\ pc # "call"

\* the vendor extension is present with its greedy flag true
GreedySet(nvext) == nvext # None /\ nvext[1].greed_sampling = Some(TRUE)

\* the message of the error the first out-of-range field, in the order
\* temperature, top_p, frequency_penalty, presence_penalty, must produce
FirstOutOfRange(req) ==
    IF OutOfRange(req.temperature, TemperatureBounds) THEN "Error validating temperature"
    ELSE IF OutOfRange(req.top_p, TopPBounds) THEN "Error validating top_p"
    ELSE IF OutOfRange(req.frequency_penalty, PenaltyBounds)
         THEN "Error validating frequency_penalty"
    ELSE IF OutOfRange(req.presence_penalty, PenaltyBounds)
         THEN "Error validating presence_penalty"
    ELSE "none"

\* no sampling field of the request is NaN
Ordered(req) ==
    /\ req.temperature # Some(NaN)
    /\ req.top_p # Some(NaN)
    /\ req.frequency_penalty # Some(NaN)
    /\ req.presence_penalty # Some(NaN)

Min(a, b) == IF Lt(b, a) THEN b ELSE a

Max(a, b) == IF Gt(b, a) THEN b ELSE a

---------------------------------------------------------------------------
(* validate_range *)

\* C1: validate_range(Some(v), (lo, hi)) with lo <= hi succeeds, with
\* Some(v), if and only if lo <= v <= hi and fails with the out-of-range
\* error otherwise; validate_range(None, range) succeeds with None.
\* Violated: a NaN value passes both comparisons and is returned.
C1_ValidateRangeDecidesRange ==
    Returned("validate_range") =>
        IF args.value = None THEN ret = Ok(None)
        ELSE /\ ret.ok <=> InRange(args.value[1], args.range)
             /\ ret.ok => ret.val = args.value
             /\ ~ret.ok => ret.err.msg = "Value is out of range"

\* The same statement for the values that are numbers: it holds.
ValidateRangeDecidesRangeOfNumbers ==
    (Returned("validate_range") /\ args.value # Some(NaN)) =>
        IF args.value = None THEN ret = Ok(None)
        ELSE /\ ret.ok <=> InRange(args.value[1], args.range)
             /\ ret.ok => ret.val = args.value
             /\ ~ret.ok => ret.err.msg = "Value is out of range"

---------------------------------------------------------------------------
(* extract_sampling_options *)

\* C2: the fields are validated in the order temperature, top_p,
\* frequency_penalty, presence_penalty; the call succeeds if and only if
\* every present field is within its range, and a failure names the first
\* out-of-range field in that order.
\* Violated: a NaN field is not within its range and is not rejected.
C2_FirstOutOfRangeFieldWins ==
    Returned("extract_sampling_options") =>
        /\ ret.ok <=> FirstOutOfRange(args) = "none"
        /\ ~ret.ok => ret.err.msg = FirstOutOfRange(args)

\* The same statement for requests without a NaN field: it holds.
FirstOutOfRangeNumberWins ==
    (Returned("extract_sampling_options") /\ Ordered(args)) =>
        /\ ret.ok <=> FirstOutOfRange(args) = "none"
        /\ ~ret.ok => ret.err.msg = FirstOutOfRange(args)

\* C3: when the vendor extension is present with the greedy flag true and
\* the extraction succeeds, temperature and top_p are absent from the
\* result and both penalties are returned as supplied.
C3_GreedyOverride ==
    (Returned("extract_sampling_options") /\ GreedySet(args.nvext) /\ ret.ok) =>
        /\ ret.val.temperature = None
        /\ ret.val.top_p = None
        /\ ret.val.frequency_penalty = args.frequency_penalty
        /\ ret.val.presence_penalty = args.presence_penalty

\* temperature 0.7 and top_p 0.9 with the greedy flag: both are dropped
C3_Witness ==
    /\ op = "extract_sampling_options" /\ pc = "returned"
    /\ GreedySet(args.nvext)
    /\ args.temperature = Some(Num(7, 10))
    /\ args.top_p = Some(Num(9, 10))
    /\ args.frequency_penalty = Some(Num(1, 2))
    /\ args.presence_penalty = Some(Num(-2, 1))
    /\ ret.ok
    /\ ret.val.temperature = None
    /\ ret.val.top_p = None
    /\ ret.val.frequency_penalty = Some(Num(1, 2))

\* C7: every present scalar of a returned SamplingOptions lies within its
\* range, whatever the inputs and the vendor extension.
\* Violated: a NaN field is returned as it was supplied.
C7_ReturnedOptionsInRange ==
    (Returned("extract_sampling_options") /\ ret.ok) =>
        /\ ~OutOfRange(ret.val.temperature, TemperatureBounds)
        /\ ~OutOfRange(ret.val.top_p, TopPBounds)
        /\ ~OutOfRange(ret.val.frequency_penalty, PenaltyBounds)
        /\ ~OutOfRange(ret.val.presence_penalty, PenaltyBounds)

\* The same statement for requests without a NaN field: it holds.
ReturnedNumbersInRange ==
    (Returned("extract_sampling_options") /\ Ordered(args) /\ ret.ok) =>
        /\ ~OutOfRange(ret.val.temperature, TemperatureBounds)
        /\ ~OutOfRange(ret.val.top_p, TopPBounds)
        /\ ~OutOfRange(ret.val.frequency_penalty, PenaltyBounds)
        /\ ~OutOfRange(ret.val.presence_penalty, PenaltyBounds)

\* C10: validation precedes the greedy override: a present temperature or
\* top_p outside its range fails the call, the greedy flag set or not; and
\* without the greedy flag set the returned temperature and top_p are the
\* supplied ones.
\* Violated: a NaN temperature or top_p is not rejected.
C10_ValidationPrecedesGreedy ==
    Returned("extract_sampling_options") =>
        /\ (\/ OutOfRange(args.temperature, TemperatureBounds)
            \/ OutOfRange(args.top_p, TopPBounds)) => ~ret.ok
        /\ (ret.ok /\ ~GreedySet(args.nvext)) =>
               /\ ret.val.temperature = args.temperature
               /\ ret.val.top_p = args.top_p

\* The same statement for requests without a NaN field: it holds.
ValidationOfNumbersPrecedesGreedy ==
    (Returned("extract_sampling_options") /\ Ordered(args)) =>
        /\ (\/ OutOfRange(args.temperature, TemperatureBounds)
            \/ OutOfRange(args.top_p, TopPBounds)) => ~ret.ok
        /\ (ret.ok /\ ~GreedySet(args.nvext)) =>
               /\ ret.val.temperature = args.temperature
               /\ ret.val.top_p = args.top_p

---------------------------------------------------------------------------
(* extract_stop_conditions *)

\* C4: the extraction fails when stop is present with more than 4 strings
\* and succeeds when stop is absent or has at most 4 strings, returning
\* the strings in their original order.
C4_StopCardinality ==
    Returned("extract_stop_conditions") =>
        /\ ret.ok <=> (args.stop = None \/ Len(args.stop[1]) <= 4)
        /\ ret.ok => ret.val.stop = args.stop

\* exactly four stop strings are accepted and returned in order
C4_Witness ==
    /\ op = "extract_stop_conditions" /\ pc = "returned"
    /\ args.stop = Some(<<"a", "b", "b", "a">>)
    /\ ret.ok
    /\ ret.val.stop = Some(<<"a", "b", "b", "a">>)

\* C9: a successful extraction carries max_tokens, min_tokens and stop as
\* supplied, with no validation of the token counts (min_tokens above
\* max_tokens is accepted); ignore_eos is the vendor extension's value
\* when the extension is present and absent when it is not;
\* stop_token_ids_hidden is absent.
C9_StopConditionsVerbatim ==
    Returned("extract_stop_conditions") =>
        /\ ret.ok =>
               /\ ret.val.max_tokens = args.max_tokens
               /\ ret.val.min_tokens = args.min_tokens
               /\ ret.val.stop = args.stop
               /\ ret.val.ignore_eos =
                      (IF args.nvext = None THEN None ELSE args.nvext[1].ignore_eos)
               /\ ret.val.stop_token_ids_hidden = None
        /\ ~ret.ok => (args.stop # None /\ Len(args.stop[1]) > 4)

\* min_tokens above max_tokens, ignore_eos set by the vendor extension
C9_Witness ==
    /\ op = "extract_stop_conditions" /\ pc = "returned"
    /\ args.max_tokens = Some(1)
    /\ args.min_tokens = Some(2)
    /\ args.stop = Some(<<"b", "a">>)
    /\ args.nvext # None
    /\ args.nvext[1].ignore_eos = Some(TRUE)
    /\ ret.ok
    /\ ret.val.max_tokens = Some(1)
    /\ ret.val.min_tokens = Some(2)
    /\ ret.val.ignore_eos = Some(TRUE)

---------------------------------------------------------------------------
(* scale_value *)

\* C5: scale_value fails exactly when the source range or the destination
\* range has zero width, for every value.
C5_DegenerateRangeFails ==
    Returned("scale_value") =>
        (~ret.ok <=> (args.src[1] = args.src[2] \/ args.dst[1] = args.dst[2]))

\* a zero-width source range with a proper destination range
C5_Witness ==
    /\ op = "scale_value" /\ pc = "returned"
    /\ args.value = Num(1, 1)
    /\ args.src = <<Num(1, 1), Num(1, 1)>>
    /\ args.dst = <<Num(0, 1), Num(2, 1)>>
    /\ ~ret.ok

\* C6: on non-degenerate ranges scale_value(v, (s0, s1), (d0, d1)) is
\* d0 + ((v - s0) / (s1 - s0)) * (d1 - d0): it maps s0 to d0 and s1 to d1,
\* is affine in v (stated without the division:
\* r * (s1 - s0) = d0 * (s1 - s0) + (v - s0) * (d1 - d0)), and does not
\* clamp: a v outside the source range gives a result outside the
\* destination range; scale_value(-1, (-2, 2), (1, 2)) = 1.25.
C6_ScaleValueAffine ==
    (Returned("scale_value") /\ ret.ok /\ ~args.value.nan) =>
        LET v  == args.value
            s0 == args.src[1]
            s1 == args.src[2]
            d0 == args.dst[1]
            d1 == args.dst[2]
            r  == ret.val
        IN  /\ v = s0 => r = d0
            /\ v = s1 => r = d1
            /\ Mul(r, Sub(s1, s0)) =
                   Add(Mul(d0, Sub(s1, s0)), Mul(Sub(v, s0), Sub(d1, d0)))
            /\ (Lt(v, Min(s0, s1)) \/ Gt(v, Max(s0, s1))) =>
                   (Lt(r, Min(d0, d1)) \/ Gt(r, Max(d0, d1)))
            /\ (v = Num(-1, 1) /\ args.src = <<Num(-2, 1), Num(2, 1)>>
                    /\ args.dst = <<Num(1, 1), Num(2, 1)>>) => r = Num(5, 4)

\* a value above the source range is extrapolated above the destination
C6_Witness ==
    /\ op = "scale_value" /\ pc = "returned"
    /\ args.value = Num(2, 1)
    /\ args.src = <<Num(-1, 1), Num(1, 1)>>
    /\ args.dst = <<Num(0, 1), Num(2, 1)>>
    /\ ret = Ok(Num(3, 1))

\* the example of the tests: -1 in (-2, 2) scaled to (1, 2) is 1.25
ScaleValueExample ==
    /\ op = "scale_value" /\ pc = "returned"
    /\ args.value = Num(-1, 1)
    /\ args.src = <<Num(-2, 1), Num(2, 1)>>
    /\ args.dst = <<Num(1, 1), Num(2, 1)>>
    /\ ret = Ok(Num(5, 4))

---------------------------------------------------------------------------
(* Idempotence *)

\* C8: feeding the options a successful extraction returned back through
\* the same extractor, with the same vendor extension, succeeds and
\* returns the same options; for the sampling options and for the stop
\* conditions.
C8_ExtractionIdempotent == [][pc' = "reextracted" => ret' = ret]_vars

\* a request with temperature 0.7 and top_p 0.9 was extracted twice
C8_Witness ==
    /\ op = "extract_sampling_options" /\ pc = "reextracted"
    /\ args.temperature = Some(Num(7, 10))
    /\ args.top_p = Some(Num(9, 10))
    /\ args.frequency_penalty = Some(Num(2, 1))
    /\ ret.ok
    /\ ret.val.temperature = Some(Num(7, 10))
    /\ ret.val.top_p = Some(Num(9, 10))

====
